---- MODULE Spec2Model ----
(***************************************************************************)
(* Model of the EventStoreDB Go client facade, src/esdb/client.go.         *)
(*                                                                         *)
(* Every public method of Client is an operation a caller runs.  The       *)
(* methods that perform several RPC steps (AppendToStream, the reads and   *)
(* the catch-up subscriptions) are modelled one RPC step per action, the   *)
(* persistent-subscription methods, which only gate and dispatch, are one  *)
(* action each.  The connection supervisor (grpcClient), the persistent    *)
(* client, the legacy HTTP functions and the protobuf getters live outside *)
(* client.go; they are modelled from the specification.                    *)
(***************************************************************************)
EXTENDS Integers, Sequences, FiniteSets, TLC

\* ------------------------------------------------------------------ bounds
\* Revisions are unsigned integers of RevBits bits (64 in the program).
RevBits == 3
\* Largest number of events handed to one AppendToStream call.
MaxEvents == 2
\* Largest generation the supervisor hands out.
MaxGen == 2

\* ------------------------------------------------------------- value sets
Procs == {"a", "b"}
\* The callers that run in the sequential specification.
SeqProcs == {"a"}

RECURSIVE Pow2(_)
Pow2(n) == IF n = 0 THEN 1 ELSE 2 * Pow2(n - 1)

\* The revisions the server answers with: the smallest values and the values
\* around the sign bit and the top of the unsigned range.
Revisions == {0, 1, Pow2(RevBits - 1) - 1, Pow2(RevBits - 1), Pow2(RevBits) - 1}

EventIds == {"e1", "e2"}

featurePersistentSubscriptionToAll == "PersistentSubscriptionToAll"
featurePersistentSubscriptionManagement == "PersistentSubscriptionManagement"
Features == {featurePersistentSubscriptionToAll, featurePersistentSubscriptionManagement}

\* Taxonomy codes the classifier can assign to a failed RPC step.
RpcErrors == {"Unavailable", "NotLeader", "AccessDenied"}
\* The codes on which the supervisor drops the handle.
InvalidatingErrors == {"Unavailable", "NotLeader"}

RECURSIVE SeqsUpTo(_, _)
SeqsUpTo(S, n) ==
    IF n = 0 THEN {<<>>}
    ELSE LET shorter == SeqsUpTo(S, n - 1)
         IN  shorter \cup {Append(s, x) : s \in {t \in shorter : Len(t) = n - 1}, x \in S}

EventSeqs == SeqsUpTo(EventIds, MaxEvents)
\* The events of one append: event ids are opaque to the client, so one
\* sequence of each length stands for all of them.
AppendEventSeqs ==
    {s \in EventSeqs : \A i \in 1 .. Len(s) : s[i] = IF i % 2 = 1 THEN "e1" ELSE "e2"}

\* ExpectedRevision option of the caller: Any | NoStream | StreamExists | Revision(u64).
ExpectedRevisions ==
    {[kind |-> k, rev |-> 0] : k \in {"any", "no_stream", "stream_exists"}}
        \cup {[kind |-> "revision", rev |-> Pow2(RevBits) - 1]}

\* ------------------------------------------------------------------ state
VARIABLES
    conn,      \* the supervisor: state, generation and features of the handle
    pc,        \* pc[p]: position of caller p inside its operation
    op,        \* op[p]: the operation p runs and its arguments
    h,         \* h[p]: the connection handle p acquired for its operation
    ctx,       \* ctx[p]: the per-call context: "none", "live" or "cancelled"
    frames,    \* frames[p]: frames p sent on the bidi Append call it opened
    opened,    \* opened[p]: number of times p's operation called streamsClient.Append
    reports,   \* reports[p]: the (handle, code) pairs p passed to handleError
    reqs,      \* reqs[p]: transport requests p's operation dispatched
    resp,      \* resp[p]: the terminal frame the server answered p's append with
    result,    \* result[p]: what the operation returned to the caller
    first,     \* first[p]: what the first Recv on p's read stream yielded
    meta       \* the server's metadata stream: the last $metadata event it stored

vars == <<conn, pc, op, h, ctx, frames, opened, reports, reqs, resp, result, first, meta>>

NoHandle == [gen |-> 0, features |-> {}]
\* A typed Go value: its dynamic type and, for a number, its value.
Val(t, v) == [t |-> t, v |-> v]
NoVal == Val("none", 0)
\* A StreamMetadata value: $maxCount, $acl and one custom property.
NoMetadata == [maxCount |-> NoVal, acl |-> "none", custom |-> NoVal]
\* The bytes of an event payload, as the JSON document they spell.
NoData == [json |-> "none", maxCount |-> NoVal, acl |-> "none", custom |-> NoVal]
NoMeta == [data |-> NoData, from |-> NoMetadata]
NoFrame == [kind |-> "none", code |-> "", id |-> "", data |-> NoData]

NoOp == [name |-> "none", stream |-> "", group |-> "", expected |-> [kind |-> "any", rev |-> 0],
         events |-> <<>>, filter |-> "none", settings |-> "none",
         streamID |-> "", metadata |-> NoMetadata, waited |-> FALSE]
NoResp == [result |-> "none",
           currentRevisionOption |-> [kind |-> "unset", rev |-> 0],
           positionOption |-> [kind |-> "unset", commit |-> 0, prepare |-> 0],
           expected |-> [kind |-> "unset", rev |-> 0],
           current |-> [kind |-> "unset", rev |-> 0]]
NoResult == [kind |-> "none", err |-> <<>>, value |-> <<>>]

\* ----------------------------------------------------------------- errors
\* An error value is the chain of its layers, outermost first.  A layer is
\* an *Error carrying a taxonomy code, or a fmt.Errorf("...%w") wrapper.
ErrorLayer(code, msg) == [kind |-> "Error", code |-> code, msg |-> msg]
WrapLayer(msg) == [kind |-> "wrap", code |-> "", msg |-> msg]
NewError(code, msg) == <<ErrorLayer(code, msg)>>
Wrap(msg, err) == <<WrapLayer(msg)>> \o err

OkResult(v) == [kind |-> "ok", err |-> <<>>, value |-> v]
ErrResult(e) == [kind |-> "error", err |-> e, value |-> <<>>]

unsupportedFeatureError == NewError("UnsupportedFeature", <<>>)

\* ------------------------------------------------- the supervisor (grpcClient)
Init ==
    /\ conn = [state |-> "Idle", gen |-> 0, features |-> {}]
    /\ pc = [p \in Procs |-> "idle"]
    /\ op = [p \in Procs |-> NoOp]
    /\ h = [p \in Procs |-> NoHandle]
    /\ ctx = [p \in Procs |-> "none"]
    /\ frames = [p \in Procs |-> <<>>]
    /\ opened = [p \in Procs |-> 0]
    /\ reports = [p \in Procs |-> <<>>]
    /\ reqs = [p \in Procs |-> <<>>]
    /\ resp = [p \in Procs |-> NoResp]
    /\ result = [p \in Procs |-> NoResult]
    /\ first = [p \in Procs |-> NoFrame]
    /\ meta = NoMeta

\* What one discovery attempt can produce: failure, or a node whose server
\* version yields the feature set f.
DiscoveryOutcomes ==
    {[ok |-> FALSE, features |-> {}]} \cup {[ok |-> TRUE, features |-> f] : f \in SUBSET Features}

\* getConnectionHandle: the cached handle, or the result of a discovery when
\* none is cached; a closed supervisor hands out nothing.
AcquireConn(d) ==
    IF conn.state = "Idle" /\ d.ok /\ conn.gen < MaxGen
    THEN [state |-> "Connected", gen |-> conn.gen + 1, features |-> d.features]
    ELSE conn

getConnectionHandle(d) ==
    LET c == AcquireConn(d)
    IN  IF c.state = "Connected" THEN [gen |-> c.gen, features |-> c.features] ELSE NoHandle

AcquireError ==
    NewError(IF conn.state = "Closed" THEN "ConnectionClosed" ELSE "DiscoveryFailed", <<>>)

SupportsFeature(handle, f) == f \in handle.features

\* handleError: the classified error, and the supervisor after the report.
\* The handle is dropped only when the reported generation is the current one.
Invalidate(handle, code) ==
    IF code \in InvalidatingErrors /\ conn.state = "Connected" /\ handle.gen = conn.gen
    THEN [state |-> "Idle", gen |-> conn.gen, features |-> {}]
    ELSE conn

handleError(handle, code) == NewError(code, <<>>)

\* Close
Close ==
    /\ conn.state # "Closed"
    /\ conn' = [state |-> "Closed", gen |-> conn.gen, features |-> {}]
    /\ UNCHANGED <<pc, op, h, ctx, frames, opened, reports, reqs, resp, result, first, meta>>

\* The caller takes the returned value and is ready for its next operation.
Return(p) ==
    /\ pc[p] = "done"
    /\ pc' = [pc EXCEPT ![p] = "idle"]
    /\ op' = [op EXCEPT ![p] = NoOp]
    /\ h' = [h EXCEPT ![p] = NoHandle]
    /\ ctx' = [ctx EXCEPT ![p] = "none"]
    /\ frames' = [frames EXCEPT ![p] = <<>>]
    /\ opened' = [opened EXCEPT ![p] = 0]
    /\ reports' = [reports EXCEPT ![p] = <<>>]
    /\ reqs' = [reqs EXCEPT ![p] = <<>>]
    /\ resp' = [resp EXCEPT ![p] = NoResp]
    /\ result' = [result EXCEPT ![p] = NoResult]
    /\ first' = [first EXCEPT ![p] = NoFrame]
    /\ UNCHANGED <<conn, meta>>

\* ------------------------------------------------ protobuf oneof getters
\* A getter of a oneof field yields the zero value when another variant, or
\* none, is set.
GetCurrentRevisionOption(success) == success.currentRevisionOption
GetCurrentRevision(success) ==
    IF success.currentRevisionOption.kind = "current_revision"
    THEN success.currentRevisionOption.rev ELSE 0
GetPositionOption(success) == success.positionOption
GetExpectedRevision(wrong) == IF wrong.expected.kind = "revision" THEN wrong.expected.rev ELSE 0
GetWrongCurrentRevision(wrong) == IF wrong.current.kind = "revision" THEN wrong.current.rev ELSE 0

\* The terminal frames the server can answer an append with.
PositionOptions ==
    {[kind |-> "unset", commit |-> 0, prepare |-> 0],
     [kind |-> "position", commit |-> 1, prepare |-> 1],
     [kind |-> "position", commit |-> 2, prepare |-> 1]}
CurrentRevisionOptions ==
    {[kind |-> k, rev |-> 0] : k \in {"no_stream", "unset"}}
        \cup {[kind |-> "current_revision", rev |-> r] : r \in Revisions}
WrongExpectedOptions ==
    {[kind |-> k, rev |-> 0] : k \in {"any", "no_stream", "stream_exists", "unset"}}
        \cup {[kind |-> "revision", rev |-> r] : r \in Revisions}
WrongCurrentOptions ==
    {[kind |-> k, rev |-> 0] : k \in {"no_stream", "unset"}}
        \cup {[kind |-> "revision", rev |-> r] : r \in Revisions}
SuccessResponses ==
    {[NoResp EXCEPT !.result = "success", !.currentRevisionOption = c, !.positionOption = q] :
        c \in CurrentRevisionOptions, q \in PositionOptions}
WrongExpectedVersionResponses ==
    {[NoResp EXCEPT !.result = "wrong_expected_version", !.expected = e, !.current = c] :
        e \in WrongExpectedOptions, c \in WrongCurrentOptions}
AppendResponses == SuccessResponses \cup WrongExpectedVersionResponses \cup {NoResp}

\* ------------------------------------------------------- number rendering
DigitChars == <<"0", "1", "2", "3", "4", "5", "6", "7", "8", "9">>

RECURSIVE Digits(_)
Digits(n) == IF n < 10 THEN <<DigitChars[n + 1]>> ELSE Digits(n \div 10) \o <<DigitChars[(n % 10) + 1]>>

\* strconv.Itoa: the signed decimal text of an int.
Itoa(n) == IF n < 0 THEN <<"-">> \o Digits(-n) ELSE Digits(n)

\* int(x) of an unsigned revision: the same bits read as a signed integer.
IntOfUint64(v) == IF v >= Pow2(RevBits - 1) THEN v - Pow2(RevBits) ELSE v

\* The unsigned decimal text of a revision.
FormatUint(v) == Digits(v)

\* --------------------------------------------------------- AppendToStream
toAppendHeader(streamID, expectedRevision) ==
    [type |-> "header", stream |-> streamID, expected |-> expectedRevision, event |-> ""]
toProposedMessage(event) ==
    [type |-> "proposed_message", stream |-> "", expected |-> [kind |-> "any", rev |-> 0], event |-> event]
HalfClose ==
    [type |-> "half_close", stream |-> "", expected |-> [kind |-> "any", rev |-> 0], event |-> ""]

WriteResult(commit, prepare, next) ==
    [CommitPosition |-> commit, PreparePosition |-> prepare, NextExpectedVersion |-> next]

\* Variant of AppendSuccess that exchanges the two halves of the position.
AppendSuccess_SwappedPosition(success) ==
    LET firstRevision ==
            IF GetCurrentRevisionOption(success).kind = "no_stream"
            THEN 1 ELSE GetCurrentRevision(success)
        position == GetPositionOption(success)
    IN  IF position.kind = "position"
        THEN WriteResult(position.prepare, position.commit, firstRevision)
        ELSE WriteResult(0, 0, GetCurrentRevision(success))

\* Variant of AppendSuccess that reports 1 when the frame names no revision.
AppendSuccess_BareIsOne(success) ==
    LET firstRevision ==
            IF GetCurrentRevisionOption(success).kind \in {"no_stream", "unset"}
            THEN 1 ELSE GetCurrentRevision(success)
        position == GetPositionOption(success)
    IN  IF position.kind = "position"
        THEN WriteResult(position.commit, position.prepare, firstRevision)
        ELSE WriteResult(0, 0, firstRevision)

\* Decoding of a Success frame.
AppendSuccess(success) ==
    LET firstRevision ==
            IF GetCurrentRevisionOption(success).kind = "no_stream"
            THEN 1 ELSE GetCurrentRevision(success)
        position == GetPositionOption(success)
    IN  IF position.kind = "position"
        THEN WriteResult(position.commit, position.prepare, firstRevision)
        ELSE WriteResult(0, 0, GetCurrentRevision(success))

\* Decoding of a WrongExpectedVersion frame: the two names of the message.
WrongExpectedName(wrong) ==
    IF wrong.expected.kind = "any" THEN <<"any">>
    ELSE IF wrong.expected.kind = "no_stream" THEN <<"no_stream">>
    ELSE IF wrong.expected.kind = "stream_exists" THEN <<"stream_exists">>
    ELSE Itoa(IntOfUint64(GetExpectedRevision(wrong)))

WrongCurrentName(wrong) ==
    IF wrong.current.kind = "no_stream" THEN <<"no_stream">>
    ELSE Itoa(IntOfUint64(GetWrongCurrentRevision(wrong)))

WrongExpectedVersionText(expected, current) ==
    <<"wrong expected version: ", "expecting '">> \o expected \o <<"' but got '">> \o current \o <<"'">>

AppendWrongExpectedVersion(wrong) ==
    NewError("WrongExpectedVersion",
             WrongExpectedVersionText(WrongExpectedName(wrong), WrongCurrentName(wrong)))

\* The value AppendToStream returns for the terminal frame it received.
AppendResult(response) ==
    IF response.result = "success" THEN OkResult(AppendSuccess(response))
    ELSE IF response.result = "wrong_expected_version"
         THEN ErrResult(AppendWrongExpectedVersion(response))
         ELSE OkResult(WriteResult(0, 0, 1))

AppendStreams == {"s", "t"}

\* getConnectionHandle and configureGrpcCall at the head of AppendToStream.
StartAppend(p, streamID, expected, events, d) ==
    /\ pc[p] = "idle"
    /\ op' = [op EXCEPT ![p] = [NoOp EXCEPT !.name = "AppendToStream", !.stream = streamID,
                                           !.expected = expected, !.events = events]]
    /\ conn' = AcquireConn(d)
    /\ IF getConnectionHandle(d) = NoHandle
       THEN /\ result' = [result EXCEPT ![p] = ErrResult(AcquireError)]
            /\ pc' = [pc EXCEPT ![p] = "done"]
            /\ UNCHANGED <<h, ctx>>
       ELSE /\ h' = [h EXCEPT ![p] = getConnectionHandle(d)]
            /\ ctx' = [ctx EXCEPT ![p] = "live"]
            /\ pc' = [pc EXCEPT ![p] = "append_open"]
            /\ UNCHANGED result
    /\ UNCHANGED <<frames, opened, reports, reqs, resp>>

\* Variant of AppendFail that opens the Append call again, once, whatever the
\* failure was.
AppendFail_Reopen(p, code, err) ==
    /\ reports' = [reports EXCEPT ![p] = Append(@, [gen |-> h[p].gen, code |-> code])]
    /\ conn' = Invalidate(h[p], code)
    /\ IF opened[p] < 2 /\ pc[p] # "append_open"
       THEN /\ pc' = [pc EXCEPT ![p] = "append_open"]
            /\ UNCHANGED <<result, ctx>>
       ELSE /\ result' = [result EXCEPT ![p] = ErrResult(err)]
            /\ ctx' = [ctx EXCEPT ![p] = "cancelled"]
            /\ pc' = [pc EXCEPT ![p] = "done"]
    /\ UNCHANGED <<op, h, frames, reqs, resp>>

\* Variant of AppendFail that reports the failure against whatever handle is
\* current instead of the handle the operation acquired.
AppendFail_CurrentHandle(p, code, err) ==
    /\ reports' = [reports EXCEPT ![p] = Append(@, [gen |-> h[p].gen, code |-> code])]
    /\ conn' = Invalidate([h[p] EXCEPT !.gen = conn.gen], code)
    /\ result' = [result EXCEPT ![p] = ErrResult(err)]
    /\ ctx' = [ctx EXCEPT ![p] = "cancelled"]
    /\ pc' = [pc EXCEPT ![p] = "done"]
    /\ UNCHANGED <<op, h, frames, reqs, resp>>

\* Variant of AppendFail that starts the append over, once, after a leader
\* redirect.
AppendFail_Retry(p, code, err) ==
    /\ reports' = [reports EXCEPT ![p] = Append(@, [gen |-> h[p].gen, code |-> code])]
    /\ conn' = Invalidate(h[p], code)
    /\ IF code = "NotLeader" /\ opened[p] < 2
       THEN /\ pc' = [pc EXCEPT ![p] = "append_open"]
            /\ UNCHANGED <<result, ctx>>
       ELSE /\ result' = [result EXCEPT ![p] = ErrResult(err)]
            /\ ctx' = [ctx EXCEPT ![p] = "cancelled"]
            /\ pc' = [pc EXCEPT ![p] = "done"]
    /\ UNCHANGED <<op, h, frames, reqs, resp>>

\* A failed step of the append: the error is reported with the handle of
\* this call, the deferred cancel runs and err is returned.
AppendFail(p, code, err) ==
    /\ reports' = [reports EXCEPT ![p] = Append(@, [gen |-> h[p].gen, code |-> code])]
    /\ conn' = Invalidate(h[p], code)
    /\ result' = [result EXCEPT ![p] = ErrResult(err)]
    /\ ctx' = [ctx EXCEPT ![p] = "cancelled"]
    /\ pc' = [pc EXCEPT ![p] = "done"]
    /\ UNCHANGED <<op, h, frames, reqs, resp>>

\* streamsClient.Append
AppendOpen(p, out) ==
    /\ pc[p] = "append_open"
    /\ opened' = [opened EXCEPT ![p] = @ + 1]
    /\ IF out = "ok"
       THEN /\ frames' = [frames EXCEPT ![p] = <<>>]
            /\ pc' = [pc EXCEPT ![p] = "append_header"]
            /\ UNCHANGED <<conn, op, h, ctx, reports, reqs, resp, result>>
       ELSE AppendFail(p, out, Wrap(<<"could not construct append operation. Reason: ">>,
                                    handleError(h[p], out)))

\* appendOperation.Send(header)
AppendSendHeader(p, out) ==
    /\ pc[p] = "append_header"
    /\ UNCHANGED opened
    /\ IF out = "ok"
       THEN /\ frames' = [frames EXCEPT ![p] = Append(@, toAppendHeader(op[p].stream, op[p].expected))]
            /\ pc' = [pc EXCEPT ![p] = "append_events"]
            /\ UNCHANGED <<conn, op, h, ctx, reports, reqs, resp, result>>
       ELSE AppendFail(p, out, Wrap(<<"could not send append request header. Reason: ">>,
                                    handleError(h[p], out)))

\* Variant of AppendSendEvent in which the callers share one Append call: the
\* message goes onto the call another caller has open, when there is one.
AppendSendEvent_SharedCall(p, out) ==
    /\ pc[p] = "append_events"
    /\ Len(frames[p]) - 1 < Len(op[p].events)
    /\ UNCHANGED opened
    /\ IF out = "ok"
       THEN LET open == {q \in Procs \ {p} : pc[q] = "append_events"}
                call == IF open = {} THEN p ELSE CHOOSE q \in open : TRUE
            IN  /\ frames' = [frames EXCEPT ![call] =
                        Append(@, toProposedMessage(op[p].events[Len(frames[p])]))]
                /\ UNCHANGED <<conn, pc, op, h, ctx, reports, reqs, resp, result>>
       ELSE AppendFail(p, out, Wrap(<<"could not send append request. Reason: ">>,
                                    handleError(h[p], out)))

\* Variant of AppendSendEvent that walks the events from the last to the first.
AppendSendEvent_Reversed(p, out) ==
    /\ pc[p] = "append_events"
    /\ Len(frames[p]) - 1 < Len(op[p].events)
    /\ UNCHANGED opened
    /\ IF out = "ok"
       THEN /\ frames' = [frames EXCEPT ![p] =
                    Append(@, toProposedMessage(op[p].events[Len(op[p].events) + 1 - Len(frames[p])]))]
            /\ UNCHANGED <<conn, pc, op, h, ctx, reports, reqs, resp, result>>
       ELSE AppendFail(p, out, Wrap(<<"could not send append request. Reason: ">>,
                                    handleError(h[p], out)))

\* One turn of the loop over the events: Send of the next proposed message.
AppendSendEvent(p, out) ==
    /\ pc[p] = "append_events"
    /\ Len(frames[p]) - 1 < Len(op[p].events)
    /\ UNCHANGED opened
    /\ IF out = "ok"
       THEN /\ frames' = [frames EXCEPT ![p] = Append(@, toProposedMessage(op[p].events[Len(frames[p])]))]
            /\ UNCHANGED <<conn, pc, op, h, ctx, reports, reqs, resp, result>>
       ELSE AppendFail(p, out, Wrap(<<"could not send append request. Reason: ">>,
                                    handleError(h[p], out)))

\* appendOperation.CloseAndRecv and the decoding of its response.  The call
\* fails at the half-close, fails at the receive, or delivers a frame.
AppendCloseOutcomes ==
    {[step |-> s, code |-> c, response |-> NoResp] : s \in {"close_failed", "recv_failed"}, c \in RpcErrors}
        \cup {[step |-> "received", code |-> "", response |-> r] : r \in AppendResponses}

AppendCloseAndRecv(p, out) ==
    /\ pc[p] = "append_events"
    /\ Len(frames[p]) - 1 = Len(op[p].events)
    /\ meta' = IF out.step = "received" /\ out.response.result = "success"
                    /\ op[p].name = "SetStreamMetadata"
               THEN [data |-> op[p].events[1].Data, from |-> op[p].metadata]
               ELSE meta
    /\ UNCHANGED first
    /\ IF out.step = "received"
       THEN /\ frames' = [frames EXCEPT ![p] = Append(@, HalfClose)]
            /\ resp' = [resp EXCEPT ![p] = out.response]
            /\ result' = [result EXCEPT ![p] = AppendResult(out.response)]
            /\ ctx' = [ctx EXCEPT ![p] = "cancelled"]
            /\ pc' = [pc EXCEPT ![p] = "done"]
            /\ UNCHANGED <<conn, op, h, opened, reports, reqs>>
       ELSE /\ reports' = [reports EXCEPT ![p] = Append(@, [gen |-> h[p].gen, code |-> out.code])]
            /\ conn' = Invalidate(h[p], out.code)
            /\ result' = [result EXCEPT ![p] = ErrResult(handleError(h[p], out.code))]
            /\ ctx' = [ctx EXCEPT ![p] = "cancelled"]
            /\ pc' = [pc EXCEPT ![p] = "done"]
            /\ frames' = [frames EXCEPT ![p] = IF out.step = "recv_failed" THEN Append(@, HalfClose) ELSE @]
            /\ UNCHANGED <<op, h, opened, reqs, resp>>

\* ------------------------------------------- DeleteStream, TombstoneStream
\* Variant of Begin that goes on with whatever getConnectionHandle returned.
Begin_IgnoreAcquireError(p, o, d, next, context) ==
    /\ pc[p] = "idle"
    /\ op' = [op EXCEPT ![p] = o]
    /\ conn' = AcquireConn(d)
    /\ h' = [h EXCEPT ![p] = getConnectionHandle(d)]
    /\ ctx' = [ctx EXCEPT ![p] = context]
    /\ pc' = [pc EXCEPT ![p] = next]
    /\ UNCHANGED <<result, frames, opened, reports, reqs, resp>>

\* The head every operation shares: getConnectionHandle, then, when a handle
\* was obtained, the state the operation continues from.
Begin(p, o, d, next, context) ==
    /\ pc[p] = "idle"
    /\ op' = [op EXCEPT ![p] = o]
    /\ conn' = AcquireConn(d)
    /\ IF getConnectionHandle(d) = NoHandle
       THEN /\ result' = [result EXCEPT ![p] = ErrResult(AcquireError)]
            /\ pc' = [pc EXCEPT ![p] = "done"]
            /\ UNCHANGED <<h, ctx>>
       ELSE /\ h' = [h EXCEPT ![p] = getConnectionHandle(d)]
            /\ ctx' = [ctx EXCEPT ![p] = context]
            /\ pc' = [pc EXCEPT ![p] = next]
            /\ UNCHANGED result
    /\ UNCHANGED <<frames, opened, reports, reqs, resp>>

\* Variant of FailAndCancel that hands the failure to the supervisor twice.
FailAndCancel_ReportTwice(p, code, err) ==
    /\ reports' = [reports EXCEPT ![p] =
            @ \o <<[gen |-> h[p].gen, code |-> code], [gen |-> h[p].gen, code |-> code]>>]
    /\ conn' = Invalidate(h[p], code)
    /\ result' = [result EXCEPT ![p] = ErrResult(err)]
    /\ ctx' = [ctx EXCEPT ![p] = "cancelled"]
    /\ pc' = [pc EXCEPT ![p] = "done"]
    /\ UNCHANGED <<op, h, frames, opened, reqs, resp>>

\* A failed RPC step that cancels the call context on its way out.
FailAndCancel(p, code, err) ==
    /\ reports' = [reports EXCEPT ![p] = Append(@, [gen |-> h[p].gen, code |-> code])]
    /\ conn' = Invalidate(h[p], code)
    /\ result' = [result EXCEPT ![p] = ErrResult(err)]
    /\ ctx' = [ctx EXCEPT ![p] = "cancelled"]
    /\ pc' = [pc EXCEPT ![p] = "done"]
    /\ UNCHANGED <<op, h, frames, opened, reqs, resp>>

StartDeleteStream(p, streamID, expected, d) ==
    Begin(p, [NoOp EXCEPT !.name = "DeleteStream", !.stream = streamID, !.expected = expected],
          d, "delete_rpc", "live")

\* streamsClient.Delete and the deferred cancel.
DeleteStream(p, out) ==
    /\ pc[p] = "delete_rpc"
    /\ IF out = "ok"
       THEN /\ result' = [result EXCEPT ![p] = OkResult([kind |-> "DeleteResult"])]
            /\ ctx' = [ctx EXCEPT ![p] = "cancelled"]
            /\ pc' = [pc EXCEPT ![p] = "done"]
            /\ UNCHANGED <<conn, op, h, frames, opened, reports, reqs, resp>>
       ELSE FailAndCancel(p, out, Wrap(<<"failed to perform delete, details: ">>, handleError(h[p], out)))

StartTombstoneStream(p, streamID, expected, d) ==
    Begin(p, [NoOp EXCEPT !.name = "TombstoneStream", !.stream = streamID, !.expected = expected],
          d, "tombstone_rpc", "live")

\* streamsClient.Tombstone and the deferred cancel.
TombstoneStream(p, out) ==
    /\ pc[p] = "tombstone_rpc"
    /\ IF out = "ok"
       THEN /\ result' = [result EXCEPT ![p] = OkResult([kind |-> "DeleteResult"])]
            /\ ctx' = [ctx EXCEPT ![p] = "cancelled"]
            /\ pc' = [pc EXCEPT ![p] = "done"]
            /\ UNCHANGED <<conn, op, h, frames, opened, reports, reqs, resp>>
       ELSE FailAndCancel(p, out, Wrap(<<"failed to perform delete, details: ">>, handleError(h[p], out)))

\* ------------------------------------------------------ ReadStream, ReadAll
\* The call context of a read is created inside readInternal.
ReadStream(p, streamID, d) ==
    Begin(p, [NoOp EXCEPT !.name = "ReadStream", !.stream = streamID], d, "read_rpc", "none")

ReadAll(p, d) ==
    Begin(p, [NoOp EXCEPT !.name = "ReadAll", !.stream = "$all"], d, "read_rpc", "none")

\* Variant of readInternal that defers cancel on the successful path too.
readInternal_DeferCancel(p, out) ==
    /\ pc[p] = "read_rpc"
    /\ IF out = "ok"
       THEN /\ result' = [result EXCEPT ![p] = OkResult([kind |-> "ReadStream", gen |-> h[p].gen])]
            /\ ctx' = [ctx EXCEPT ![p] = "cancelled"]
            /\ pc' = [pc EXCEPT ![p] = IF op[p].name = "GetStreamMetadata" THEN "metadata_recv" ELSE "done"]
            /\ UNCHANGED <<conn, op, h, frames, opened, reports, reqs, resp>>
       ELSE FailAndCancel(p, out,
                <<ErrorLayer("Unknown", <<>>)>>
                    \o Wrap(<<"failed to construct read stream. Reason: ">>, handleError(h[p], out)))

\* readInternal: configureGrpcCall, streamsClient.Read, and either the read
\* stream that owns the cancel function or the error.
readInternal(p, out) ==
    /\ pc[p] = "read_rpc"
    /\ IF out = "ok"
       THEN /\ result' = [result EXCEPT ![p] = OkResult([kind |-> "ReadStream", gen |-> h[p].gen])]
            /\ ctx' = [ctx EXCEPT ![p] = "live"]
            /\ pc' = [pc EXCEPT ![p] = IF op[p].name = "GetStreamMetadata" THEN "metadata_recv" ELSE "done"]
            /\ UNCHANGED <<conn, op, h, frames, opened, reports, reqs, resp>>
       ELSE FailAndCancel(p, out,
                <<ErrorLayer("Unknown", <<>>)>>
                    \o Wrap(<<"failed to construct read stream. Reason: ">>, handleError(h[p], out)))

\* ---------------------------------------- SubscribeToStream, SubscribeToAll
SubscriptionFilters == {"none", "valid", "invalid"}
SubscriptionIds == {"sub-1", "sub-2"}

\* toStreamSubscriptionRequest / toAllSubscriptionRequest: the request cannot
\* be built from a filter the conversion rejects.
SubscriptionRequestFails(filter) == filter = "invalid"

\* Head of a subscription up to the construction of the request: the call
\* context exists from configureGrpcCall on.
BeginSubscription(p, o, d) ==
    /\ pc[p] = "idle"
    /\ op' = [op EXCEPT ![p] = o]
    /\ conn' = AcquireConn(d)
    /\ IF getConnectionHandle(d) = NoHandle
       THEN /\ result' = [result EXCEPT ![p] = ErrResult(AcquireError)]
            /\ pc' = [pc EXCEPT ![p] = "done"]
            /\ UNCHANGED <<h, ctx>>
       ELSE /\ h' = [h EXCEPT ![p] = getConnectionHandle(d)]
            /\ ctx' = [ctx EXCEPT ![p] = "live"]
            /\ IF SubscriptionRequestFails(o.filter)
               THEN /\ result' = [result EXCEPT ![p] =
                            ErrResult(<<WrapLayer(<<"failed to construct subscription. Reason: ">>),
                                        WrapLayer(<<"invalid filter">>)>>)]
                    /\ pc' = [pc EXCEPT ![p] = "done"]
               ELSE /\ pc' = [pc EXCEPT ![p] = "sub_read"]
                    /\ UNCHANGED result
    /\ UNCHANGED <<frames, opened, reports, reqs, resp>>

\* SubscribeToStream always passes a nil filter to the request.
SubscribeToStream(p, streamID, d) ==
    BeginSubscription(p, [NoOp EXCEPT !.name = "SubscribeToStream", !.stream = streamID], d)

SubscribeToAll(p, filter, d) ==
    BeginSubscription(p, [NoOp EXCEPT !.name = "SubscribeToAll", !.stream = "$all", !.filter = filter], d)

\* streamsClient.Read of a subscription.
SubscribeRead(p, out) ==
    /\ pc[p] = "sub_read"
    /\ IF out = "ok"
       THEN /\ pc' = [pc EXCEPT ![p] = "sub_recv"]
            /\ UNCHANGED <<conn, op, h, ctx, frames, opened, reports, reqs, resp, result>>
       ELSE FailAndCancel(p, out, Wrap(<<"failed to construct subscription. Reason: ">>,
                                       handleError(h[p], out)))

\* What the first readClient.Recv of a subscription yields.
FirstFrames ==
    {[NoFrame EXCEPT !.kind = "error", !.code = c] : c \in RpcErrors}
        \cup {[NoFrame EXCEPT !.kind = "confirmation", !.id = i] : i \in SubscriptionIds}
        \cup {[NoFrame EXCEPT !.kind = k] : k \in {"event", "stream_not_found"}}

\* SubscribeRecv with a switch that accepts every frame as the confirmation.
SubscribeRecv_AnyFrame(p, out) ==
    /\ pc[p] = "sub_recv"
    /\ first' = [first EXCEPT ![p] = out]
    /\ UNCHANGED meta
    /\ IF out.kind = "error"
       THEN FailAndCancel(p, out.code, Wrap(<<"failed to perform read. Reason: ">>,
                                            handleError(h[p], out.code)))
       ELSE /\ result' = [result EXCEPT ![p] = OkResult([kind |-> "Subscription", id |-> out.id])]
            /\ pc' = [pc EXCEPT ![p] = "done"]
            /\ UNCHANGED <<conn, op, h, ctx, frames, opened, reports, reqs, resp>>

\* readClient.Recv and the switch on the first frame.
SubscribeRecv(p, out) ==
    /\ pc[p] = "sub_recv"
    /\ first' = [first EXCEPT ![p] = out]
    /\ UNCHANGED meta
    /\ IF out.kind = "error"
       THEN FailAndCancel(p, out.code, Wrap(<<"failed to perform read. Reason: ">>,
                                            handleError(h[p], out.code)))
       ELSE /\ IF out.kind = "confirmation"
               THEN /\ result' = [result EXCEPT ![p] = OkResult([kind |-> "Subscription", id |-> out.id])]
                    /\ UNCHANGED ctx
               ELSE /\ result' = [result EXCEPT ![p] =
                            ErrResult(<<WrapLayer(<<"failed to initiate subscription">>)>>)]
                    /\ ctx' = [ctx EXCEPT ![p] = "cancelled"]
            /\ pc' = [pc EXCEPT ![p] = "done"]
            /\ UNCHANGED <<conn, op, h, frames, opened, reports, reqs, resp>>

\* ------------------------------------- SetStreamMetadata, GetStreamMetadata
\* The stream ids metadata is set and read for, and fmt.Sprintf("$$%v", streamID).
MetaStreams == {"s"}
MetaStreamName(streamID) == "$$" \o streamID

\* float64 keeps MantissaBits significant bits (53 of 64, here one less than
\* RevBits) and rounds the rest to nearest, ties to even.
MantissaBits == RevBits - 1
RECURSIVE ExcessBits(_)
ExcessBits(n) == IF n < Pow2(MantissaBits) THEN 0 ELSE 1 + ExcessBits(n \div 2)
Float64(n) ==
    LET unit == Pow2(ExcessBits(n))
        q    == n \div unit
        r    == n % unit
    IN  IF 2 * r < unit \/ (2 * r = unit /\ q % 2 = 0) THEN q * unit ELSE (q + 1) * unit

\* The values a caller puts in a StreamMetadata: $maxCount, $acl (a value of a
\* type toMap does not know is "unsupported") and one custom property (a
\* string, a small or a large integer, or a value JSON cannot encode).
CustomValues ==
    {NoVal, Val("string", 0), Val("int", 1), Val("int", Pow2(RevBits) - 1), Val("chan", 0)}
Metadatas ==
    [maxCount : {NoVal, Val("int", 2)}, acl : {"$userStreamAcl", "unsupported"},
     custom : CustomValues] \cup {NoMetadata}

\* metadata.toMap(): the properties as a map, or an error.
toMapFails(metadata) == metadata.acl = "unsupported"
toMap(metadata) == [maxCount |-> metadata.maxCount, acl |-> metadata.acl, custom |-> metadata.custom]

\* json.Marshal of the map: a JSON object, or an error for a value of a type
\* JSON cannot encode.
MarshalFails(props) == props.custom.t = "chan"
Marshal(props) ==
    [json |-> "object", maxCount |-> props.maxCount, acl |-> props.acl, custom |-> props.custom]

\* json.Unmarshal into map[string]interface{}: every JSON number becomes a
\* float64.
UnmarshalFails(data) == data.json # "object"
JsonValue(v) == IF v.t \in {"int", "float64"} THEN Val("float64", Float64(v.v)) ELSE v
Unmarshal(data) ==
    [maxCount |-> JsonValue(data.maxCount), acl |-> data.acl, custom |-> JsonValue(data.custom)]

\* streamMetadataFromMap: recognized keys are converted to their field's type,
\* any other key is kept as decoded.
streamMetadataFromMapFails(props) == props.maxCount.t \notin {"none", "float64"}
streamMetadataFromMap(props) ==
    [maxCount |-> IF props.maxCount.t = "float64" THEN Val("int", props.maxCount.v) ELSE NoVal,
     acl      |-> props.acl,
     custom   |-> props.custom]

ContentTypeJson == "application/json"
EventData(contentType, eventType, data) ==
    [ContentType |-> contentType, EventType |-> eventType, Data |-> data]

\* Variant of SetStreamMetadata that appends to the stream itself.
SetStreamMetadata_NoPrefix(p, streamID, expected, metadata, d) ==
    LET o == [NoOp EXCEPT !.name = "SetStreamMetadata", !.streamID = streamID,
                          !.metadata = metadata, !.expected = expected]
    IN  IF toMapFails(metadata) \/ MarshalFails(toMap(metadata))
        THEN /\ pc[p] = "idle"
             /\ op' = [op EXCEPT ![p] = o]
             /\ result' = [result EXCEPT ![p] =
                     ErrResult(<<WrapLayer(<<"error when serializing stream metadata: ">>),
                                 WrapLayer(<<"unsupported value">>)>>)]
             /\ pc' = [pc EXCEPT ![p] = "done"]
             /\ UNCHANGED <<conn, h, ctx, frames, opened, reports, reqs, resp>>
        ELSE Begin(p, [o EXCEPT !.stream = streamID,
                                !.events = <<EventData(ContentTypeJson, "$metadata",
                                                       Marshal(toMap(metadata)))>>],
                   d, "append_open", "live")

\* SetStreamMetadata: toMap, json.Marshal, then AppendToStream of the one
\* event; a failed serialization returns before anything is acquired.
SetStreamMetadata(p, streamID, expected, metadata, d) ==
    LET o == [NoOp EXCEPT !.name = "SetStreamMetadata", !.streamID = streamID,
                          !.metadata = metadata, !.expected = expected]
    IN  IF toMapFails(metadata) \/ MarshalFails(toMap(metadata))
        THEN /\ pc[p] = "idle"
             /\ op' = [op EXCEPT ![p] = o]
             /\ result' = [result EXCEPT ![p] =
                     ErrResult(<<WrapLayer(<<"error when serializing stream metadata: ">>),
                                 WrapLayer(<<"unsupported value">>)>>)]
             /\ pc' = [pc EXCEPT ![p] = "done"]
             /\ UNCHANGED <<conn, h, ctx, frames, opened, reports, reqs, resp>>
        ELSE Begin(p, [o EXCEPT !.stream = MetaStreamName(streamID),
                                !.events = <<EventData(ContentTypeJson, "$metadata",
                                                       Marshal(toMap(metadata)))>>],
                   d, "append_open", "live")

\* GetStreamMetadata up to client.ReadStream(context, streamName, opts, 1).
GetStreamMetadata(p, streamID, d) ==
    Begin(p, [NoOp EXCEPT !.name = "GetStreamMetadata", !.streamID = streamID,
                          !.stream = MetaStreamName(streamID)],
          d, "read_rpc", "none")

\* Payloads other writers may have left in a metadata stream: bytes that are
\* not JSON, and an object whose $maxCount is a string.
ForeignData ==
    {[NoData EXCEPT !.json = "invalid"], [NoData EXCEPT !.json = "object", !.maxCount = Val("string", 0)]}

\* What stream.Recv yields: an error, the end of the stream, or the event the
\* metadata stream holds.
MetadataRecvOutcomes ==
    {[NoFrame EXCEPT !.kind = "error", !.code = c] : c \in RpcErrors}
        \cup {[NoFrame EXCEPT !.kind = "eof"]}
        \cup {[NoFrame EXCEPT !.kind = "event", !.data = data] : data \in ForeignData \cup {meta.data}}

\* The error a failed stream.Recv returns; the read object reports it to the
\* supervisor as every failed RPC step does.
RecvError(p, code) == handleError(h[p], code)

\* Variant of GetStreamMetadataRecv that treats the end of the stream as any
\* other error of Recv.
GetStreamMetadataRecv_EofIsError(p, out) ==
    /\ pc[p] = "metadata_recv"
    /\ out.kind = "eof" => meta.data.json = "none"
    /\ out.kind = "event" => out.data.json # "none"
    /\ first' = [first EXCEPT ![p] = out]
    /\ UNCHANGED meta
    /\ IF out.kind = "error"
       THEN FailAndCancel(p, out.code, Wrap(<<"unexpected error when reading stream metadata: ">>,
                                            RecvError(p, out.code)))
       ELSE /\ result' = [result EXCEPT ![p] =
                    IF out.kind = "eof"
                    THEN ErrResult(<<WrapLayer(<<"unexpected error when reading stream metadata: ">>),
                                     WrapLayer(<<"EOF">>)>>)
                    ELSE IF UnmarshalFails(out.data)
                    THEN ErrResult(<<ErrorLayer("Parsing", <<>>),
                                     WrapLayer(<<"error when deserializing stream metadata json: ">>)>>)
                    ELSE IF streamMetadataFromMapFails(Unmarshal(out.data))
                    THEN ErrResult(<<ErrorLayer("Parsing", <<>>),
                                     WrapLayer(<<"error when parsing stream metadata json: ">>)>>)
                    ELSE OkResult(streamMetadataFromMap(Unmarshal(out.data)))]
            /\ ctx' = [ctx EXCEPT ![p] = "cancelled"]
            /\ pc' = [pc EXCEPT ![p] = "done"]
            /\ UNCHANGED <<conn, op, h, frames, opened, reports, reqs, resp>>

\* Variant of GetStreamMetadataRecv that hands a decoding failure to the
\* supervisor as a failure of the connection.
GetStreamMetadataRecv_Reporting(p, out) ==
    /\ pc[p] = "metadata_recv"
    /\ out.kind = "eof" => meta.data.json = "none"
    /\ out.kind = "event" => out.data.json # "none"
    /\ first' = [first EXCEPT ![p] = out]
    /\ UNCHANGED meta
    /\ IF out.kind = "error"
       THEN FailAndCancel(p, out.code, Wrap(<<"unexpected error when reading stream metadata: ">>,
                                            RecvError(p, out.code)))
       ELSE IF out.kind = "event"
                /\ (UnmarshalFails(out.data) \/ streamMetadataFromMapFails(Unmarshal(out.data)))
       THEN FailAndCancel(p, "Unavailable", <<ErrorLayer("Parsing", <<>>)>>)
       ELSE /\ result' = [result EXCEPT ![p] =
                    IF out.kind = "eof"
                    THEN OkResult(NoMetadata)
                    ELSE OkResult(streamMetadataFromMap(Unmarshal(out.data)))]
            /\ ctx' = [ctx EXCEPT ![p] = "cancelled"]
            /\ pc' = [pc EXCEPT ![p] = "done"]
            /\ UNCHANGED <<conn, op, h, frames, opened, reports, reqs, resp>>

\* The rest of GetStreamMetadata: the deferred stream.Close, stream.Recv and
\* the decoding of the event's payload.
GetStreamMetadataRecv(p, out) ==
    /\ pc[p] = "metadata_recv"
    /\ out.kind = "eof" => meta.data.json = "none"
    /\ out.kind = "event" => out.data.json # "none"
    /\ first' = [first EXCEPT ![p] = out]
    /\ UNCHANGED meta
    /\ IF out.kind = "error"
       THEN FailAndCancel(p, out.code, Wrap(<<"unexpected error when reading stream metadata: ">>,
                                            RecvError(p, out.code)))
       ELSE /\ result' = [result EXCEPT ![p] =
                    IF out.kind = "eof"
                    THEN OkResult(NoMetadata)
                    ELSE IF UnmarshalFails(out.data)
                    THEN ErrResult(<<ErrorLayer("Parsing", <<>>),
                                     WrapLayer(<<"error when deserializing stream metadata json: ">>)>>)
                    ELSE IF streamMetadataFromMapFails(Unmarshal(out.data))
                    THEN ErrResult(<<ErrorLayer("Parsing", <<>>),
                                     WrapLayer(<<"error when parsing stream metadata json: ">>)>>)
                    ELSE OkResult(streamMetadataFromMap(Unmarshal(out.data)))]
            /\ ctx' = [ctx EXCEPT ![p] = "cancelled"]
            /\ pc' = [pc EXCEPT ![p] = "done"]
            /\ UNCHANGED <<conn, op, h, frames, opened, reports, reqs, resp>>

\* ------------------------------------------------- persistent subscriptions
\* A nil *string stream name, and the options' Settings pointer.
NilStream == "<nil>"
SettingsOptions == {"nil", "custom"}
PersistentStreams == {"s", "$all"}

Request(path, rpc, stream, settings) ==
    [path |-> path, rpc |-> rpc, stream |-> stream, settings |-> settings]

\* A call handed to the persistent gRPC client, or to the legacy HTTP
\* surface: the request it issues is all the facade decides.
Grpc(rpc, stream, settings) ==
    [result |-> [kind |-> "dispatched", err |-> <<>>, value |-> <<>>],
     reqs |-> <<Request("grpc", rpc, stream, settings)>>]
Http(rpc, stream) ==
    [result |-> [kind |-> "dispatched", err |-> <<>>, value |-> <<>>],
     reqs |-> <<Request("http", rpc, stream, "")>>]
Unsupported == [result |-> ErrResult(unsupportedFeatureError), reqs |-> <<>>]
\* Dereference of a nil Settings pointer.
NilDereference == [result |-> [kind |-> "panic", err |-> <<>>, value |-> <<>>], reqs |-> <<>>]

\* options.Settings after the "if options.Settings == nil" default.
SettingsOrDefault(settings) == IF settings = "nil" THEN "default" ELSE settings

\* An operation that acquires a handle and returns what out(handle) decides.
Dispatch(p, o, d, out) ==
    /\ pc[p] = "idle"
    /\ op' = [op EXCEPT ![p] = o]
    /\ conn' = AcquireConn(d)
    /\ IF getConnectionHandle(d) = NoHandle
       THEN /\ result' = [result EXCEPT ![p] = ErrResult(AcquireError)]
            /\ UNCHANGED <<h, reqs>>
       ELSE /\ h' = [h EXCEPT ![p] = getConnectionHandle(d)]
            /\ result' = [result EXCEPT ![p] = out.result]
            /\ reqs' = [reqs EXCEPT ![p] = out.reqs]
    /\ pc' = [pc EXCEPT ![p] = "done"]
    /\ UNCHANGED <<ctx, frames, opened, reports, resp>>

SubscribeToPersistentSubscription(p, streamName, d) ==
    Dispatch(p, [NoOp EXCEPT !.name = "SubscribeToPersistentSubscription", !.stream = streamName], d,
             Grpc("ConnectToPersistentSubscription", streamName, ""))

SubscribeToPersistentSubscriptionToAll(p, d) ==
    Dispatch(p, [NoOp EXCEPT !.name = "SubscribeToPersistentSubscriptionToAll", !.stream = "$all"], d,
             IF ~SupportsFeature(getConnectionHandle(d), featurePersistentSubscriptionToAll)
             THEN Unsupported
             ELSE Grpc("ConnectToPersistentSubscription", "", ""))

\* Variant of CreatePersistentSubscription with a legacy HTTP fallback.
CreatePersistentSubscription_HttpFallback(p, streamName, settings, d) ==
    Dispatch(p, [NoOp EXCEPT !.name = "CreatePersistentSubscription", !.stream = streamName,
                             !.settings = settings], d,
             IF SupportsFeature(getConnectionHandle(d), featurePersistentSubscriptionManagement)
             THEN Grpc("CreateStreamSubscription", streamName, SettingsOrDefault(settings))
             ELSE Http("httpCreatePersistentSubscription", streamName))

CreatePersistentSubscription(p, streamName, settings, d) ==
    Dispatch(p, [NoOp EXCEPT !.name = "CreatePersistentSubscription", !.stream = streamName,
                             !.settings = settings], d,
             Grpc("CreateStreamSubscription", streamName, SettingsOrDefault(settings)))

CreatePersistentSubscriptionToAll(p, settings, d) ==
    Dispatch(p, [NoOp EXCEPT !.name = "CreatePersistentSubscriptionToAll", !.stream = "$all",
                             !.settings = settings], d,
             IF ~SupportsFeature(getConnectionHandle(d), featurePersistentSubscriptionToAll)
             THEN Unsupported
             ELSE Grpc("CreateAllSubscription", "$all", SettingsOrDefault(settings)))

UpdatePersistentSubscription(p, streamName, settings, d) ==
    Dispatch(p, [NoOp EXCEPT !.name = "UpdatePersistentSubscription", !.stream = streamName,
                             !.settings = settings], d,
             Grpc("UpdateStreamSubscription", streamName, SettingsOrDefault(settings)))

\* No default is filled in here: *options.Settings is evaluated as it came.
UpdatePersistentSubscriptionToAll(p, settings, d) ==
    Dispatch(p, [NoOp EXCEPT !.name = "UpdatePersistentSubscriptionToAll", !.stream = "$all",
                             !.settings = settings], d,
             IF ~SupportsFeature(getConnectionHandle(d), featurePersistentSubscriptionToAll)
             THEN Unsupported
             ELSE IF settings = "nil" THEN NilDereference
             ELSE Grpc("UpdateAllSubscription", "$all", settings))

DeletePersistentSubscription(p, streamName, d) ==
    Dispatch(p, [NoOp EXCEPT !.name = "DeletePersistentSubscription", !.stream = streamName], d,
             Grpc("DeleteStreamSubscription", streamName, ""))

\* Variant of DeletePersistentSubscriptionToAll without the feature test.
DeletePersistentSubscriptionToAll_NoGate(p, d) ==
    Dispatch(p, [NoOp EXCEPT !.name = "DeletePersistentSubscriptionToAll", !.stream = "$all"], d,
             Grpc("DeleteAllSubscription", "$all", ""))

DeletePersistentSubscriptionToAll(p, d) ==
    Dispatch(p, [NoOp EXCEPT !.name = "DeletePersistentSubscriptionToAll", !.stream = "$all"], d,
             IF ~SupportsFeature(getConnectionHandle(d), featurePersistentSubscriptionToAll)
             THEN Unsupported
             ELSE Grpc("DeleteAllSubscription", "$all", ""))

replayParkedMessages(handle, streamName) ==
    LET finalStreamName == IF streamName # "$all" THEN streamName ELSE NilStream
    IN  IF finalStreamName = NilStream /\ ~SupportsFeature(handle, featurePersistentSubscriptionToAll)
        THEN Unsupported
        ELSE IF SupportsFeature(handle, featurePersistentSubscriptionManagement)
             THEN Grpc("replayParkedMessages", finalStreamName, "")
             ELSE Http("httpReplayParkedMessages", streamName)

ReplayParkedMessages(p, streamName, d) ==
    Dispatch(p, [NoOp EXCEPT !.name = "ReplayParkedMessages", !.stream = streamName], d,
             replayParkedMessages(getConnectionHandle(d), streamName))

ReplayParkedMessagesToAll(p, d) ==
    Dispatch(p, [NoOp EXCEPT !.name = "ReplayParkedMessagesToAll", !.stream = "$all"], d,
             replayParkedMessages(getConnectionHandle(d), "$all"))

\* Variant of listPersistentSubscriptionsInternal that never takes the HTTP path.
listPersistentSubscriptionsInternal_AlwaysGrpc(handle, streamName) ==
    IF streamName # NilStream /\ streamName = "$all"
            /\ ~SupportsFeature(handle, featurePersistentSubscriptionToAll)
    THEN Unsupported
    ELSE Grpc("listPersistentSubscriptions", streamName, "")

listPersistentSubscriptionsInternal(handle, streamName) ==
    IF streamName # NilStream /\ streamName = "$all"
            /\ ~SupportsFeature(handle, featurePersistentSubscriptionToAll)
    THEN Unsupported
    ELSE IF SupportsFeature(handle, featurePersistentSubscriptionManagement)
         THEN Grpc("listPersistentSubscriptions", streamName, "")
         ELSE IF streamName # NilStream
              THEN Http("httpListPersistentSubscriptionsForStream", streamName)
              ELSE Http("httpListAllPersistentSubscriptions", NilStream)

ListAllPersistentSubscriptions(p, d) ==
    Dispatch(p, [NoOp EXCEPT !.name = "ListAllPersistentSubscriptions", !.stream = NilStream], d,
             listPersistentSubscriptionsInternal(getConnectionHandle(d), NilStream))

ListPersistentSubscriptionsForStream(p, streamName, d) ==
    Dispatch(p, [NoOp EXCEPT !.name = "ListPersistentSubscriptionsForStream", !.stream = streamName], d,
             listPersistentSubscriptionsInternal(getConnectionHandle(d), streamName))

ListPersistentSubscriptionsToAll(p, d) ==
    Dispatch(p, [NoOp EXCEPT !.name = "ListPersistentSubscriptionsToAll", !.stream = "$all"], d,
             listPersistentSubscriptionsInternal(getConnectionHandle(d), "$all"))

getPersistentSubscriptionInfoInternal(handle, streamName) ==
    IF streamName # NilStream /\ streamName = "$all"
            /\ ~SupportsFeature(handle, featurePersistentSubscriptionToAll)
    THEN Unsupported
    ELSE IF SupportsFeature(handle, featurePersistentSubscriptionManagement)
         THEN Grpc("getPersistentSubscriptionInfo", streamName, "")
         ELSE Http("httpGetPersistentSubscriptionInfo",
                   IF streamName = NilStream THEN "$all" ELSE streamName)

GetPersistentSubscriptionInfo(p, streamName, d) ==
    Dispatch(p, [NoOp EXCEPT !.name = "GetPersistentSubscriptionInfo", !.stream = streamName], d,
             getPersistentSubscriptionInfoInternal(getConnectionHandle(d), streamName))

\* The $all variant passes a nil stream name.
GetPersistentSubscriptionInfoToAll(p, d) ==
    Dispatch(p, [NoOp EXCEPT !.name = "GetPersistentSubscriptionInfoToAll", !.stream = "$all"], d,
             getPersistentSubscriptionInfoInternal(getConnectionHandle(d), NilStream))

RestartPersistentSubscriptionSubsystem(p, d) ==
    Dispatch(p, [NoOp EXCEPT !.name = "RestartPersistentSubscriptionSubsystem"], d,
             IF SupportsFeature(getConnectionHandle(d), featurePersistentSubscriptionManagement)
             THEN Grpc("restartSubsystem", "", "")
             ELSE Http("httpRestartSubsystem", ""))

\* ----------------------------------------------------------- specification
StepOutcomes == {"ok"} \cup RpcErrors

Operations(p) ==
    /\ UNCHANGED <<first, meta>>
    /\ \E d \in DiscoveryOutcomes :
            \/ \E s \in AppendStreams, e \in ExpectedRevisions, ev \in AppendEventSeqs : StartAppend(p, s, e, ev, d)
            \/ \E s \in AppendStreams, e \in ExpectedRevisions : StartDeleteStream(p, s, e, d)
            \/ \E s \in AppendStreams, e \in ExpectedRevisions : StartTombstoneStream(p, s, e, d)
            \/ \E s \in AppendStreams : ReadStream(p, s, d)
            \/ ReadAll(p, d)
            \/ \E s \in AppendStreams : SubscribeToStream(p, s, d)
            \/ \E f \in SubscriptionFilters : SubscribeToAll(p, f, d)
            \/ \E s \in PersistentStreams : SubscribeToPersistentSubscription(p, s, d)
            \/ SubscribeToPersistentSubscriptionToAll(p, d)
            \/ \E s \in PersistentStreams, o \in SettingsOptions : CreatePersistentSubscription(p, s, o, d)
            \/ \E o \in SettingsOptions : CreatePersistentSubscriptionToAll(p, o, d)
            \/ \E s \in PersistentStreams, o \in SettingsOptions : UpdatePersistentSubscription(p, s, o, d)
            \/ \E o \in SettingsOptions : UpdatePersistentSubscriptionToAll(p, o, d)
            \/ \E s \in PersistentStreams : DeletePersistentSubscription(p, s, d)
            \/ DeletePersistentSubscriptionToAll(p, d)
            \/ \E s \in PersistentStreams : ReplayParkedMessages(p, s, d)
            \/ ReplayParkedMessagesToAll(p, d)
            \/ ListAllPersistentSubscriptions(p, d)
            \/ \E s \in PersistentStreams : ListPersistentSubscriptionsForStream(p, s, d)
            \/ ListPersistentSubscriptionsToAll(p, d)
            \/ \E s \in PersistentStreams : GetPersistentSubscriptionInfo(p, s, d)
            \/ GetPersistentSubscriptionInfoToAll(p, d)
            \/ RestartPersistentSubscriptionSubsystem(p, d)

Steps(p) ==
    \/ /\ UNCHANGED <<first, meta>>
       /\ \E out \in StepOutcomes :
            \/ AppendOpen(p, out)
            \/ AppendSendHeader(p, out)
            \/ AppendSendEvent(p, out)
            \/ DeleteStream(p, out)
            \/ TombstoneStream(p, out)
            \/ readInternal(p, out)
            \/ SubscribeRead(p, out)
    \/ \E out \in AppendCloseOutcomes : AppendCloseAndRecv(p, out)
    \/ \E out \in FirstFrames : SubscribeRecv(p, out)
    \/ Return(p)

Next ==
    \/ \E p \in SeqProcs : Operations(p)
    \/ \E p \in SeqProcs : Steps(p)
    \/ Close

Spec == Init /\ [][Next]_vars

\* One caller that sets and reads stream metadata.  The server answers the
\* append with a plain success or a wrong expected version, or the call fails.
MetaExpectedRevisions == {e \in ExpectedRevisions : e.kind \in {"any", "revision"}}
PlainResponses ==
    {r \in SuccessResponses :
        r.currentRevisionOption = [kind |-> "current_revision", rev |-> 0] /\ r.positionOption.commit = 1}
        \cup {r \in WrongExpectedVersionResponses :
                r.expected.kind = "stream_exists" /\ r.current.kind = "no_stream"}
PlainCloseOutcomes ==
    {o \in AppendCloseOutcomes : o.step = "received" => o.response \in PlainResponses}

MetaOperations(p) ==
    /\ UNCHANGED <<first, meta>>
    /\ \E d \in DiscoveryOutcomes :
            \/ \E s \in MetaStreams, e \in MetaExpectedRevisions, m \in Metadatas :
                    SetStreamMetadata(p, s, e, m, d)
            \/ \E s \in MetaStreams : GetStreamMetadata(p, s, d)

MetaSteps(p) ==
    \/ /\ UNCHANGED <<first, meta>>
       /\ \E out \in StepOutcomes :
            \/ AppendOpen(p, out)
            \/ AppendSendHeader(p, out)
            \/ AppendSendEvent(p, out)
            \/ readInternal(p, out)
    \/ \E out \in PlainCloseOutcomes : AppendCloseAndRecv(p, out)
    \/ \E out \in MetadataRecvOutcomes : GetStreamMetadataRecv(p, out)
    \/ Return(p)

NextMeta ==
    \/ \E p \in SeqProcs : MetaOperations(p)
    \/ \E p \in SeqProcs : MetaSteps(p)
    \/ Close

SpecMeta == Init /\ [][NextMeta]_vars

\* Two callers that append through one client at the same time.  Acquiring is
\* split where a caller can block: a caller that finds no cached handle waits
\* for the discovery in flight, and Discovered hands its result to every
\* waiting caller.
OwnEvent(p) == IF p = "a" THEN "e1" ELSE "e2"
ConcEventSeqs(p) ==
    {s \in EventSeqs : Len(s) >= 1 /\ \A i \in 1 .. Len(s) : s[i] = OwnEvent(p)}
ConcStepOutcomes == {"ok", "NotLeader", "AccessDenied"}
ConcDiscoveryOutcomes == {d \in DiscoveryOutcomes : d.features = {}}
ConcCloseOutcomes ==
    {o \in PlainCloseOutcomes :
        IF o.step = "received" THEN o.response.result = "success" ELSE o.code = "NotLeader"}

\* The supervisor once an acquire has been called: a miss starts the discovery
\* unless one is in flight already.
AcquireCalled ==
    IF conn.state = "Idle" THEN [conn EXCEPT !.state = "Discovering"] ELSE conn

\* Variant of AppendToStreamAcquire in which a caller that misses while a
\* discovery is in flight runs a discovery of its own.
AppendToStreamAcquire_OwnDiscovery(p, streamID, expected, events) ==
    LET o == [NoOp EXCEPT !.name = "AppendToStream", !.stream = streamID,
                          !.expected = expected, !.events = events]
        own == [state |-> "Connected", gen |-> conn.gen + 1, features |-> {}]
    IN  /\ pc[p] = "idle"
        /\ IF conn.state = "Connected"
           THEN /\ op' = [op EXCEPT ![p] = o]
                /\ h' = [h EXCEPT ![p] = [gen |-> conn.gen, features |-> conn.features]]
                /\ ctx' = [ctx EXCEPT ![p] = "live"]
                /\ pc' = [pc EXCEPT ![p] = "append_open"]
                /\ UNCHANGED <<conn, result>>
           ELSE IF conn.state = "Closed"
           THEN /\ op' = [op EXCEPT ![p] = o]
                /\ result' = [result EXCEPT ![p] = ErrResult(AcquireError)]
                /\ pc' = [pc EXCEPT ![p] = "done"]
                /\ UNCHANGED <<conn, h, ctx>>
           ELSE IF conn.state = "Discovering" /\ conn.gen < MaxGen
           THEN /\ op' = [op EXCEPT ![p] = o]
                /\ conn' = own
                /\ h' = [h EXCEPT ![p] = [gen |-> own.gen, features |-> own.features]]
                /\ ctx' = [ctx EXCEPT ![p] = "live"]
                /\ pc' = [pc EXCEPT ![p] = "append_open"]
                /\ UNCHANGED result
           ELSE /\ op' = [op EXCEPT ![p] = [o EXCEPT !.waited = TRUE]]
                /\ conn' = AcquireCalled
                /\ pc' = [pc EXCEPT ![p] = "acquiring"]
                /\ UNCHANGED <<h, ctx, result>>
        /\ UNCHANGED <<frames, opened, reports, reqs, resp>>

\* The head of AppendToStream up to the return of getConnectionHandle: the
\* cached handle, the error of a closed client, or a wait for the discovery.
AppendToStreamAcquire(p, streamID, expected, events) ==
    LET o == [NoOp EXCEPT !.name = "AppendToStream", !.stream = streamID,
                          !.expected = expected, !.events = events]
    IN  /\ pc[p] = "idle"
        /\ IF conn.state = "Connected"
           THEN /\ op' = [op EXCEPT ![p] = o]
                /\ h' = [h EXCEPT ![p] = [gen |-> conn.gen, features |-> conn.features]]
                /\ ctx' = [ctx EXCEPT ![p] = "live"]
                /\ pc' = [pc EXCEPT ![p] = "append_open"]
                /\ UNCHANGED <<conn, result>>
           ELSE IF conn.state = "Closed"
           THEN /\ op' = [op EXCEPT ![p] = o]
                /\ result' = [result EXCEPT ![p] = ErrResult(AcquireError)]
                /\ pc' = [pc EXCEPT ![p] = "done"]
                /\ UNCHANGED <<conn, h, ctx>>
           ELSE /\ op' = [op EXCEPT ![p] = [o EXCEPT !.waited = TRUE]]
                /\ conn' = AcquireCalled
                /\ pc' = [pc EXCEPT ![p] = "acquiring"]
                /\ UNCHANGED <<h, ctx, result>>
        /\ UNCHANGED <<frames, opened, reports, reqs, resp>>

\* The discovery in flight ends, and getConnectionHandle returns in every
\* caller that waited for it: the new handle, or the discovery's failure.
Discovered(d) ==
    LET waiting == {p \in Procs : pc[p] = "acquiring"}
        found   == d.ok /\ conn.gen < MaxGen
        handle  == [gen |-> conn.gen + 1, features |-> d.features]
    IN  /\ conn.state = "Discovering"
        /\ conn' = IF found
                   THEN [state |-> "Connected", gen |-> handle.gen, features |-> handle.features]
                   ELSE [conn EXCEPT !.state = "Idle"]
        /\ h' = [p \in Procs |-> IF p \in waiting /\ found THEN handle ELSE h[p]]
        /\ ctx' = [p \in Procs |-> IF p \in waiting /\ found THEN "live" ELSE ctx[p]]
        /\ result' = [p \in Procs |->
                IF p \in waiting /\ ~found THEN ErrResult(NewError("DiscoveryFailed", <<>>)) ELSE result[p]]
        /\ pc' = [p \in Procs |->
                IF p \in waiting THEN (IF found THEN "append_open" ELSE "done") ELSE pc[p]]
        /\ UNCHANGED <<op, frames, opened, reports, reqs, resp>>

ConcOperations(p) ==
    /\ UNCHANGED <<first, meta>>
    /\ \E ev \in ConcEventSeqs(p) : AppendToStreamAcquire(p, "s", [kind |-> "any", rev |-> 0], ev)

ConcSteps(p) ==
    \/ /\ UNCHANGED <<first, meta>>
       /\ \E out \in ConcStepOutcomes :
            \/ AppendOpen(p, out)
            \/ AppendSendHeader(p, out)
            \/ AppendSendEvent(p, out)
    \/ \E out \in ConcCloseOutcomes : AppendCloseAndRecv(p, out)
    \/ Return(p)

NextConc ==
    \/ \E p \in Procs : ConcOperations(p)
    \/ \E p \in Procs : ConcSteps(p)
    \/ \E d \in ConcDiscoveryOutcomes : Discovered(d) /\ UNCHANGED <<first, meta>>

SpecConc == Init /\ [][NextConc]_vars

\* ------------------------------------------------------------ properties
IsPrefix(a, b) == Len(a) <= Len(b) /\ SubSeq(b, 1, Len(a)) = a

\* The frames of a complete append of operation o.
ExpectedFrames(o) ==
    <<toAppendHeader(o.stream, o.expected)>>
        \o [i \in 1 .. Len(o.events) |-> toProposedMessage(o.events[i])]
        \o <<HalfClose>>

Appending(p) == op[p].name = "AppendToStream"
\* The append of p ran to the end and decoded the terminal frame r.
AppendAnswered(p) == Appending(p) /\ pc[p] = "done" /\ h[p] # NoHandle /\ reports[p] = <<>>
ReportedCodes(p) == {reports[p][i].code : i \in 1 .. Len(reports[p])}
Returned(p) == pc[p] = "done" /\ h[p] # NoHandle

\* C1: the frames sent on the Append call are at every moment a prefix of
\* header, one proposed message per event in the order passed, half-close;
\* an append that received its terminal frame has sent exactly that sequence.
C1_FrameOrder ==
    \A p \in Procs :
        Appending(p) =>
            /\ IsPrefix(frames[p], ExpectedFrames(op[p]))
            /\ AppendAnswered(p) => frames[p] = ExpectedFrames(op[p])

C1_Witness ==
    \E p \in Procs :
        /\ AppendAnswered(p)
        /\ Len(op[p].events) = 2
        /\ op[p].events[1] # op[p].events[2]
        /\ op[p].expected.kind = "revision"
        /\ Len(frames[p]) = 4

\* C2: a Success frame carrying the NoStream marker is reported as
\* NextExpectedVersion = 1, with and without a position.
C2_NoStreamReportsOne ==
    \A p \in Procs :
        (AppendAnswered(p) /\ resp[p].result = "success"
                /\ resp[p].currentRevisionOption.kind = "no_stream") =>
            /\ result[p].kind = "ok"
            /\ result[p].value.NextExpectedVersion = 1

\* C3: a Success frame carrying the numeric revision r is reported as
\* NextExpectedVersion = r; the positions are those of the frame, or both 0
\* when the frame carries none.
C3_NumericRevision ==
    \A p \in Procs :
        (AppendAnswered(p) /\ resp[p].result = "success"
                /\ resp[p].currentRevisionOption.kind = "current_revision") =>
            /\ result[p].kind = "ok"
            /\ result[p].value.NextExpectedVersion = resp[p].currentRevisionOption.rev
            /\ resp[p].positionOption.kind = "position" =>
                /\ result[p].value.CommitPosition = resp[p].positionOption.commit
                /\ result[p].value.PreparePosition = resp[p].positionOption.prepare
            /\ resp[p].positionOption.kind = "unset" =>
                /\ result[p].value.CommitPosition = 0
                /\ result[p].value.PreparePosition = 0

C3_Witness ==
    \E p \in Procs :
        /\ AppendAnswered(p)
        /\ resp[p].result = "success"
        /\ resp[p].currentRevisionOption = [kind |-> "current_revision", rev |-> Pow2(RevBits) - 1]
        /\ resp[p].positionOption = [kind |-> "position", commit |-> 2, prepare |-> 1]
        /\ result[p].value = WriteResult(2, 1, Pow2(RevBits) - 1)

\* The name the claim gives to a variant of a WrongExpectedVersion frame.
VariantName(v) == IF v.kind = "revision" THEN FormatUint(v.rev) ELSE <<v.kind>>

\* C4: a WrongExpectedVersion frame yields no WriteResult and an error of
\* code WrongExpectedVersion whose text is "expecting 'X' but got 'Y'" with X
\* and Y the names of the frame's expected and current variants.
C4_WrongExpectedVersionText ==
    \A p \in Procs :
        (AppendAnswered(p) /\ resp[p].result = "wrong_expected_version"
                /\ resp[p].expected.kind # "unset" /\ resp[p].current.kind # "unset") =>
            /\ result[p].kind = "error"
            /\ Len(result[p].err) = 1
            /\ result[p].err[1].code = "WrongExpectedVersion"
            /\ Tail(result[p].err[1].msg) =
                    <<"expecting '">> \o VariantName(resp[p].expected)
                        \o <<"' but got '">> \o VariantName(resp[p].current) \o <<"'">>

ToAllGated ==
    {"SubscribeToPersistentSubscriptionToAll", "CreatePersistentSubscriptionToAll",
     "UpdatePersistentSubscriptionToAll", "DeletePersistentSubscriptionToAll"}

LacksToAll(p) == Returned(p) /\ featurePersistentSubscriptionToAll \notin h[p].features
Rejected(p) == result[p].kind = "error" /\ result[p].err = unsupportedFeatureError /\ reqs[p] = <<>>

\* C5: without the PersistentSubscriptionToAll feature, subscribe, create,
\* update and delete on $all return UnsupportedFeature and issue no request.
C5_ToAllGate ==
    \A p \in Procs : (LacksToAll(p) /\ op[p].name \in ToAllGated) => Rejected(p)

C5_Witness ==
    \E p \in Procs :
        /\ LacksToAll(p)
        /\ op[p].name = "DeletePersistentSubscriptionToAll"
        /\ h[p].features = {featurePersistentSubscriptionManagement}
        /\ Rejected(p)

ToAllManagement ==
    {"ReplayParkedMessagesToAll", "ListPersistentSubscriptionsToAll", "GetPersistentSubscriptionInfoToAll"}

\* C6: without the PersistentSubscriptionToAll feature, replay-parked, list
\* and get-info on $all return UnsupportedFeature, whatever the other feature
\* bits, and issue neither a gRPC nor an HTTP request.
C6_ToAllManagementGate ==
    \A p \in Procs : (LacksToAll(p) /\ op[p].name \in ToAllManagement) => Rejected(p)

ManagementQueries ==
    {"ReplayParkedMessages", "ReplayParkedMessagesToAll", "ListAllPersistentSubscriptions",
     "ListPersistentSubscriptionsForStream", "ListPersistentSubscriptionsToAll",
     "GetPersistentSubscriptionInfo", "GetPersistentSubscriptionInfoToAll",
     "RestartPersistentSubscriptionSubsystem"}

Dispatched(p) == Returned(p) /\ result[p].kind = "dispatched"
ManagementPath(p) ==
    IF featurePersistentSubscriptionManagement \in h[p].features THEN "grpc" ELSE "http"

\* C7: a list, get-info, replay-parked or restart call that is not rejected
\* issues exactly one request, over gRPC when the handle of the call has
\* PersistentSubscriptionManagement and over HTTP otherwise.
C7_OneTransportPath ==
    \A p \in Procs :
        (Dispatched(p) /\ op[p].name \in ManagementQueries) =>
            /\ Len(reqs[p]) = 1
            /\ reqs[p][1].path = ManagementPath(p)

C7_Witness ==
    \E p \in Procs :
        /\ Dispatched(p)
        /\ op[p].name = "ListPersistentSubscriptionsToAll"
        /\ h[p].features = {featurePersistentSubscriptionToAll}
        /\ reqs[p] = <<Request("http", "httpListPersistentSubscriptionsForStream", "$all", "")>>

GroupChanges ==
    {"CreatePersistentSubscription", "CreatePersistentSubscriptionToAll",
     "UpdatePersistentSubscription", "UpdatePersistentSubscriptionToAll",
     "DeletePersistentSubscription", "DeletePersistentSubscriptionToAll"}

ContextOperations ==
    {"AppendToStream", "DeleteStream", "TombstoneStream", "ReadStream", "ReadAll",
     "SubscribeToStream", "SubscribeToAll"}

\* C10: an operation that returns an error after its call context was
\* created has cancelled that context.
C10_ErrorCancelsContext ==
    \A p \in Procs :
        (pc[p] = "done" /\ op[p].name \in ContextOperations
                /\ result[p].kind = "error" /\ ctx[p] # "none") =>
            ctx[p] = "cancelled"

\* The taxonomy code an error value carries: the code of the outermost *Error
\* of its chain.
ErrCode(err) ==
    LET coded == {i \in 1 .. Len(err) : err[i].kind = "Error"}
    IN  IF coded = {} THEN "" ELSE err[CHOOSE i \in coded : \A j \in coded : i <= j].code

RpcOperations ==
    {"AppendToStream", "DeleteStream", "TombstoneStream", "ReadStream", "ReadAll",
     "SubscribeToStream", "SubscribeToAll"}

\* C11: an operation whose RPC step failed returns an error that carries
\* the code the classifier assigned to that failure.
C11_ClassifiedCodeSurfaces ==
    \A p \in Procs :
        (pc[p] = "done" /\ op[p].name \in RpcOperations /\ reports[p] # <<>>) =>
            /\ result[p].kind = "error"
            /\ ErrCode(result[p].err) = reports[p][Len(reports[p])].code

SubscribeOperations == {"SubscribeToStream", "SubscribeToAll"}

\* C17: a subscribe call returns a Subscription only when the first frame received
\* on the read stream is a confirmation, and then the subscription carries that
\* confirmation's id; when the first receive fails or yields any other frame, the
\* call returns an error, no Subscription, and its context is cancelled.
C17_SubscriptionOnConfirmation ==
    \A p \in Procs :
        (pc[p] = "done" /\ op[p].name \in SubscribeOperations) =>
            /\ result[p].kind = "ok" =>
                    /\ first[p].kind = "confirmation"
                    /\ result[p].value = [kind |-> "Subscription", id |-> first[p].id]
            /\ (first[p].kind \notin {"none", "confirmation"}) =>
                    /\ result[p].kind = "error"
                    /\ ctx[p] = "cancelled"
            /\ first[p].kind = "confirmation" => result[p].kind = "ok"

\* A SubscribeToAll call returned the subscription its confirmation frame named.
C17_Witness ==
    \E p \in Procs :
        /\ pc[p] = "done" /\ op[p].name = "SubscribeToAll"
        /\ first[p].kind = "confirmation"
        /\ result[p].kind = "ok"
        /\ \E i \in SubscriptionIds : first[p].id = i /\ result[p].value.id = i

\* The payload of the first frame cannot be decoded into a StreamMetadata.
Undecodable(data) == UnmarshalFails(data) \/ streamMetadataFromMapFails(Unmarshal(data))

\* C12: when GetStreamMetadata receives a metadata event whose payload is not
\* JSON or not a metadata mapping, it returns an error with the code Parsing,
\* reports nothing to the supervisor and leaves the connection as it was: a
\* supervisor still connected at the operation's generation hands the same
\* handle to the next acquire.
C12_ParseErrorKeepsConnection ==
    [][\A p \in Procs :
        (/\ pc[p] = "metadata_recv" /\ pc'[p] = "done"
         /\ first'[p].kind = "event" /\ Undecodable(first'[p].data)) =>
            /\ result'[p].kind = "error"
            /\ ErrCode(result'[p].err) = "Parsing"
            /\ reports'[p] = <<>>
            /\ conn' = conn
            /\ (conn.state = "Connected" /\ conn.gen = h[p].gen) =>
                    \A d \in DiscoveryOutcomes : getConnectionHandle(d)' = h[p]]_vars

C12_Witness ==
    \E p \in Procs :
        /\ pc[p] = "done" /\ op[p].name = "GetStreamMetadata"
        /\ first[p].kind = "event"
        /\ ~UnmarshalFails(first[p].data) /\ streamMetadataFromMapFails(Unmarshal(first[p].data))
        /\ ErrCode(result[p].err) = "Parsing"
        /\ conn.state = "Connected" /\ conn.gen = h[p].gen

\* Two metadata values are equal when their fields are; a number equals a
\* number of the same value.
ValEqual(x, y) ==
    IF x.t \in {"int", "float64"} /\ y.t \in {"int", "float64"} THEN x.v = y.v ELSE x = y
MetadataEqual(a, b) ==
    /\ ValEqual(a.maxCount, b.maxCount)
    /\ a.acl = b.acl
    /\ ValEqual(a.custom, b.custom)

\* C13: a GetStreamMetadata that receives the event the last successful
\* SetStreamMetadata(M) stored returns a metadata value equal to M, custom
\* property included.
C13_RoundTrip ==
    \A p \in Procs :
        (/\ pc[p] = "done" /\ op[p].name = "GetStreamMetadata"
         /\ first[p].kind = "event"
         /\ meta.data.json # "none" /\ first[p].data = meta.data) =>
            /\ result[p].kind = "ok"
            /\ MetadataEqual(result[p].value, meta.from)

\* The frames SetStreamMetadata is to send: the header for the metadata stream
\* with the caller's expected revision, the one $metadata event, the half-close.
SetExpectedFrames(o) ==
    <<toAppendHeader(MetaStreamName(o.streamID), o.expected),
      toProposedMessage(EventData(ContentTypeJson, "$metadata", Marshal(toMap(o.metadata)))),
      HalfClose>>

SerializationFails(o) == toMapFails(o.metadata) \/ MarshalFails(toMap(o.metadata))

\* C14: SetStreamMetadata on s opens at most one Append call and sends on it
\* the header for "$$" followed by s with the caller's expected revision and
\* exactly one event of type $metadata with JSON content type; when the
\* metadata cannot be serialized no handle is acquired and no Append call is
\* opened; GetStreamMetadata on s reads the stream "$$" followed by s.
C14_MetadataStream ==
    \A p \in Procs :
        /\ op[p].name = "SetStreamMetadata" =>
                IF SerializationFails(op[p])
                THEN /\ opened[p] = 0 /\ frames[p] = <<>> /\ h[p] = NoHandle
                     /\ pc[p] = "done" /\ result[p].kind = "error"
                ELSE /\ opened[p] <= 1
                     /\ IsPrefix(frames[p], SetExpectedFrames(op[p]))
                     /\ (pc[p] = "done" /\ result[p].kind = "ok") =>
                            /\ opened[p] = 1
                            /\ frames[p] = SetExpectedFrames(op[p])
        /\ op[p].name = "GetStreamMetadata" => op[p].stream = MetaStreamName(op[p].streamID)

C14_Witness ==
    \E p \in Procs :
        /\ pc[p] = "done" /\ op[p].name = "SetStreamMetadata"
        /\ op[p].expected.kind = "revision"
        /\ result[p].kind = "ok"
        /\ Len(frames[p]) = 3
        /\ frames[p][1].stream = "$$s"
        /\ meta.from = op[p].metadata

\* C20: once the client is closed the supervisor stays Closed whatever runs,
\* and an operation started then ends at once with the acquire error (or, for
\* metadata that cannot be serialized, before it acquires): it holds no
\* handle, opens no call and sends no frame and no request.
C20_ClosedIsTerminal ==
    [][conn.state = "Closed" =>
        /\ conn'.state = "Closed"
        /\ \A p \in Procs :
            (pc[p] = "idle" /\ pc'[p] # "idle") =>
                /\ pc'[p] = "done"
                /\ result'[p].kind = "error"
                /\ \/ ErrCode(result'[p].err) = "ConnectionClosed"
                   \/ op'[p].name = "SetStreamMetadata" /\ SerializationFails(op'[p])
                /\ h'[p] = NoHandle
                /\ opened'[p] = 0 /\ frames'[p] = <<>> /\ reqs'[p] = <<>>]_vars

\* A delete started after Close came back with the acquire error.
C20_Witness ==
    \E p \in Procs :
        /\ conn.state = "Closed" /\ conn.gen > 0
        /\ pc[p] = "done" /\ op[p].name = "DeleteStream"
        /\ h[p] = NoHandle
        /\ ErrCode(result[p].err) = "ConnectionClosed"

FramesOfType(p, t) == {i \in 1 .. Len(frames[p]) : frames[p][i].type = t}

\* C16: each AppendToStream invocation opens at most one Append call of its
\* own; whatever the other callers do, that call carries at most one header,
\* the first frame, and besides it only events of the invocation that opened
\* it, no more of them than the invocation was given.
C16_OwnAppendCall ==
    \A p \in Procs :
        Appending(p) =>
            /\ opened[p] <= 1
            /\ FramesOfType(p, "header") \subseteq {1}
            /\ frames[p] # <<>> => frames[p][1] = toAppendHeader(op[p].stream, op[p].expected)
            /\ Cardinality(FramesOfType(p, "proposed_message")) <= Len(op[p].events)
            /\ \A i \in FramesOfType(p, "proposed_message") :
                    \E j \in 1 .. Len(op[p].events) : frames[p][i].event = op[p].events[j]
            /\ \A q \in Procs \ {p} :
                    Appending(q) =>
                        \A i \in FramesOfType(p, "proposed_message") :
                            \A j \in 1 .. Len(op[q].events) : frames[p][i].event # op[q].events[j]

\* Two appends are in flight at once, each with its header and an event sent.
C16_Witness ==
    \A p \in Procs :
        /\ Appending(p) /\ pc[p] = "append_events"
        /\ opened[p] = 1
        /\ Len(frames[p]) >= 2

\* The report caller p hands to the supervisor in this step, if it does.
Reports(p) == Len(reports'[p]) > Len(reports[p])
LastReport(p) == reports'[p][Len(reports'[p])]
Invalidates(r) == r.code \in InvalidatingErrors /\ conn.state = "Connected" /\ r.gen = conn.gen

\* C18: a failure report drops the transport only when it is the first to
\* arrive for the current generation: the report of an invalidating code with
\* the generation of the connected handle moves the supervisor out of
\* Connected, and every other report (the same handle reported again, an older
\* generation, a code that does not invalidate) leaves the supervisor as it
\* is.  Connected is entered again only with the next generation, and the
\* generation never decreases.
C18_OneInvalidation ==
    [][/\ conn'.gen >= conn.gen
       /\ (conn'.state = "Connected" /\ conn.state # "Connected") => conn'.gen = conn.gen + 1
       /\ (conn.state = "Connected" /\ conn' # conn) =>
                /\ conn' = [state |-> "Idle", gen |-> conn.gen, features |-> {}]
                /\ \E p \in Procs : Reports(p) /\ Invalidates(LastReport(p))
       /\ \A p \in Procs :
                Reports(p) =>
                    IF Invalidates(LastReport(p)) THEN conn'.state # "Connected" ELSE conn' = conn]_vars

\* Both callers reported an invalidating failure of the same handle, and the
\* supervisor has dropped that generation once.
C18_Witness ==
    /\ \A p \in Procs :
            /\ pc[p] = "done" /\ reports[p] # <<>>
            /\ reports[p][1].gen = conn.gen
            /\ reports[p][1].code \in InvalidatingErrors
    /\ conn.state = "Idle" /\ conn.gen > 0

\* C19: callers that acquire while no handle is cached share one discovery:
\* a caller that arrives while a discovery is in flight starts no other, the
\* end of the discovery serves every waiting caller in one step with the one
\* new handle of the next generation, and handles of one generation are equal.
C19_SingleFlight ==
    [][/\ \A p \in Procs :
            (pc[p] = "idle" /\ pc'[p] = "acquiring" /\ conn.state = "Discovering") => conn' = conn
       /\ (conn.state = "Discovering" /\ conn'.state = "Connected") =>
            /\ conn'.gen = conn.gen + 1
            /\ \A p \in Procs :
                    pc[p] = "acquiring" =>
                        h'[p] = [gen |-> conn'.gen, features |-> conn'.features]
       /\ conn'.state # "Discovering" => \A p \in Procs : pc'[p] # "acquiring"
       /\ \A p, q \in Procs :
            (h[p] # NoHandle /\ h[q] # NoHandle /\ h[p].gen = h[q].gen) => h[p] = h[q]]_vars

\* Both callers waited for a discovery and came out of it with the same handle.
C19_Witness ==
    /\ \A p \in Procs : op[p].waited /\ pc[p] = "append_open" /\ h[p] # NoHandle
    /\ \A p, q \in Procs : h[p] = h[q]
    /\ conn.state = "Connected" /\ conn.gen = 2

\* C21: an append whose step fails with anything but a leader redirect ends
\* with that step: the failure is its only report, the call returns the
\* classified error, streamsClient.Append was called once, and from then on no
\* frame is sent and no call is opened for it.
C21_SingleAttempt ==
    [][\A p \in Procs :
        (Appending(p) /\ op'[p] = op[p] /\ reports'[p] # <<>>
                /\ reports'[p][1].code # "NotLeader") =>
            /\ pc'[p] = "done"
            /\ Len(reports'[p]) = 1
            /\ result'[p].kind = "error"
            /\ ErrCode(result'[p].err) = reports'[p][1].code
            /\ opened'[p] = 1
            /\ reports[p] # <<>> => (frames'[p] = frames[p] /\ opened'[p] = opened[p])]_vars

\* An append failed with Unavailable while sending its second event.
C21_Witness ==
    \E p \in Procs :
        /\ Appending(p) /\ pc[p] = "done"
        /\ reports[p] = <<[gen |-> h[p].gen, code |-> "Unavailable"]>>
        /\ Len(op[p].events) >= 2
        /\ Len(frames[p]) = 2
        /\ opened[p] = 1

\* The codes of the classified RPC failures an error value wraps.
RpcFailures(err) == {err[i].code : i \in {j \in 1 .. Len(err) : err[j].kind = "Error"}} \cap RpcErrors

\* C22: while an operation runs it keeps the handle it acquired; a step of it
\* that fails at an RPC hands the failure to the supervisor in that same step,
\* once, with the generation of that handle, and the supervisor judges the
\* report against that handle; an operation reports at most once, and returns
\* a classified RPC failure only in the step that reports it.
C22_ReportedOnce ==
    [][\A p \in Procs :
        (op[p].name \in RpcOperations /\ op'[p] = op[p]) =>
            /\ h'[p] = h[p]
            /\ Len(reports'[p]) <= 1
            /\ Reports(p) =>
                    /\ LastReport(p) \in [gen : {h[p].gen}, code : RpcErrors]
                    /\ conn' = Invalidate(h[p], LastReport(p).code)
                    /\ pc'[p] = "done" /\ result'[p].kind = "error"
                    /\ RpcFailures(result'[p].err) = {LastReport(p).code}
            /\ (pc[p] # "done" /\ pc'[p] = "done" /\ RpcFailures(result'[p].err) # {}) =>
                    Reports(p)]_vars

\* A delete failed with AccessDenied: reported once, the handle stays.
C22_Witness ==
    \E p \in Procs :
        /\ pc[p] = "done" /\ op[p].name = "DeleteStream"
        /\ reports[p] = <<[gen |-> h[p].gen, code |-> "AccessDenied"]>>
        /\ conn.state = "Connected" /\ conn.gen = h[p].gen

\* C23: in the text of a WrongExpectedVersion error every numeric side, the
\* expected or the current revision, is the unsigned decimal text of the
\* revision, whatever its value; no side is a negative number.
C23_UnsignedRevisionText ==
    \A p \in Procs :
        (AppendAnswered(p) /\ resp[p].result = "wrong_expected_version") =>
            /\ result[p].err[1].msg =
                    WrongExpectedVersionText(WrongExpectedName(resp[p]), WrongCurrentName(resp[p]))
            /\ resp[p].expected.kind = "revision" =>
                    WrongExpectedName(resp[p]) = FormatUint(resp[p].expected.rev)
            /\ resp[p].current.kind = "revision" =>
                    WrongCurrentName(resp[p]) = FormatUint(resp[p].current.rev)
            /\ \A i \in 1 .. Len(result[p].err[1].msg) : result[p].err[1].msg[i] # "-"

StreamingOperations == {"ReadStream", "ReadAll", "SubscribeToStream", "SubscribeToAll"}

\* C24: a read or a subscribe that returns its ReadStream or Subscription
\* returns it with the call context live: the cancel function went into the
\* returned object and was not invoked.
C24_SuccessKeepsContext ==
    \A p \in Procs :
        (pc[p] = "done" /\ op[p].name \in StreamingOperations /\ result[p].kind = "ok") =>
            /\ result[p].value.kind \in {"ReadStream", "Subscription"}
            /\ ctx[p] = "live"

\* A ReadAll came back with its read stream.
C24_Witness ==
    \E p \in Procs :
        /\ pc[p] = "done" /\ op[p].name = "ReadAll"
        /\ result[p].kind = "ok" /\ result[p].value.kind = "ReadStream"
        /\ ctx[p] = "live" /\ reports[p] = <<>>

\* GetStreamMetadata of p returned after its read stream was opened.
MetadataRead(p) == pc[p] = "done" /\ op[p].name = "GetStreamMetadata" /\ first[p].kind # "none"
ReturnsEmpty(p) == result[p].kind = "ok" /\ result[p].value = NoMetadata

\* C25 as stated: the empty metadata value is returned exactly when the read
\* ended before any event; a failed receive gives an error; the read stream is
\* closed on every path.
C25_EmptyExactlyOnEofAsStated ==
    \A p \in Procs :
        MetadataRead(p) =>
            /\ ReturnsEmpty(p) <=> first[p].kind = "eof"
            /\ first[p].kind = "error" => result[p].kind = "error"
            /\ ctx[p] = "cancelled"

\* C25: a read that ends before any event gives the empty metadata value and
\* no error; the empty value is returned otherwise only for an event whose
\* payload is the empty mapping; a failed receive gives an error carrying its
\* code and no metadata; the read stream is closed on every path.
C25_EmptyOnEof ==
    \A p \in Procs :
        MetadataRead(p) =>
            /\ first[p].kind = "eof" => ReturnsEmpty(p)
            /\ ReturnsEmpty(p) =>
                    \/ first[p].kind = "eof"
                    \/ first[p].kind = "event" /\ first[p].data = Marshal(toMap(NoMetadata))
            /\ first[p].kind = "error" =>
                    result[p].kind = "error" /\ ErrCode(result[p].err) = first[p].code
            /\ ctx[p] = "cancelled"

\* A metadata read ended at once and gave the empty value.
C25_Witness ==
    \E p \in Procs :
        /\ MetadataRead(p)
        /\ first[p].kind = "eof"
        /\ ReturnsEmpty(p)
        /\ ctx[p] = "cancelled"

\* C26: an append that received its terminal frame returns a WriteResult and
\* no error when the frame is Success, and an error and no WriteResult for any
\* other frame, a frame without a result included.
C26_WriteResultOnlyOnSuccess ==
    \A p \in Procs :
        AppendAnswered(p) =>
            IF resp[p].result = "success"
            THEN result[p].kind = "ok"
            ELSE result[p].kind = "error" /\ result[p].value = <<>>

SettingsOperations ==
    {"CreatePersistentSubscription", "CreatePersistentSubscriptionToAll",
     "UpdatePersistentSubscription", "UpdatePersistentSubscriptionToAll"}

\* C27: a create or update of a persistent subscription whose options carry
\* no Settings does not crash, and the request it dispatches carries the
\* default settings.
C27_NilSettingsDefaulted ==
    \A p \in Procs :
        (pc[p] = "done" /\ op[p].name \in SettingsOperations /\ op[p].settings = "nil") =>
            /\ result[p].kind # "panic"
            /\ \A i \in 1 .. Len(reqs[p]) : reqs[p][i].settings = "default"

====
